---------------------------- MODULE Spec2Model ----------------------------
(***************************************************************************)
(* The interaction engine of gpt-term (cmd/gpt-term/main.go): the Bubble   *)
(* Tea model, its Update handler, the asynchronous commands it fires and   *)
(* the conversation store (internal/storage).                              *)
(*                                                                         *)
(* Texts are sequences of tokens.  The tokens "<command>", "</command>",   *)
(* the code fence, the newline and the blank are the ones the code's       *)
(* regular expressions and TrimSpace look at; every other token stands for *)
(* a run of ordinary characters.  Indices into the message list are        *)
(* zero-based, as in the code: message i of the code is messages[i+1].     *)
(***************************************************************************)
EXTENDS Integers, Sequences, FiniteSets, TLC

(***************************************************************************)
(* Bounds of the model.                                                    *)
(***************************************************************************)
MaxEvents == 6      \* events the loop processes before the model stops
MaxMsgs == 4        \* longest message list (system message included)
MaxInFlight == 2    \* most tasks of one kind in flight at a time
MaxNewChats == 1    \* how many times "new chat" creates a conversation
InputLimit == 1     \* most runes typed into the input line
MaxTextLen == 6     \* longest reply text the extraction is checked on

(***************************************************************************)
(* Tokens.                                                                 *)
(***************************************************************************)
OPEN == "<command>"
CLOSE == "</command>"
FENCE == "[fence]"     \* the three-backquote code fence
NL == "\n"
SP == " "

Min(a, b) == IF a < b THEN a ELSE b
Max(a, b) == IF a > b THEN a ELSE b

IsSpace(t) == t \in {SP, NL}

\* the least index i >= from with text[i] = tok, 0 when there is none
IndexFrom(text, tok, from) ==
  LET hits == {i \in from..Len(text) : text[i] = tok}
  IN IF hits = {} THEN 0 ELSE CHOOSE i \in hits : \A j \in hits : i <= j

\* a variant of the trim that removes leading white space only
TrimSpaceLeft(s) ==
  LET keep == {i \in 1..Len(s) : ~IsSpace(s[i])}
  IN IF keep = {} THEN <<>>
     ELSE SubSeq(s, CHOOSE i \in keep : \A j \in keep : i <= j, Len(s))

\* strings.TrimSpace
TrimSpace(s) ==
  LET keep == {i \in 1..Len(s) : ~IsSpace(s[i])}
  IN IF keep = {} THEN <<>>
     ELSE LET lo == CHOOSE i \in keep : \A j \in keep : i <= j
              hi == CHOOSE i \in keep : \A j \in keep : i >= j
          IN SubSeq(s, lo, hi)

\* regexp (?s)<command>(.*?)</command>, FindAllStringSubmatch: the first
\* submatch of every non-overlapping leftmost match, scanning from `from`
RECURSIVE FindAllCommands(_, _)
FindAllCommands(text, from) ==
  LET o == IndexFrom(text, OPEN, from)
  IN IF o = 0 THEN <<>>
     ELSE LET c == IndexFrom(text, CLOSE, o + 1)
          IN IF c = 0 THEN <<>>
             ELSE <<SubSeq(text, o + 1, c - 1)>> \o FindAllCommands(text, c + 1)

\* handleCommandExecution's extraction: the matches, each trimmed
ExtractCommands(text) ==
  LET raw == FindAllCommands(text, 1)
  IN [i \in 1..Len(raw) |-> TrimSpace(raw[i])]

\* formatContent, first pass: every fenced block becomes newline, code, newline
RECURSIVE FormatCode(_, _)
FormatCode(text, from) ==
  LET f == IndexFrom(text, FENCE, from)
      n == IF f = 0 THEN 0 ELSE IndexFrom(text, NL, f + 1)
      g == IF n = 0 THEN 0 ELSE IndexFrom(text, FENCE, n + 1)
  IN IF g = 0 THEN SubSeq(text, from, Len(text))
     ELSE SubSeq(text, from, f - 1) \o <<NL>> \o SubSeq(text, n + 1, g - 1)
            \o <<NL>> \o FormatCode(text, g + 1)

\* formatContent, second pass: every command block becomes its trimmed body
RECURSIVE FormatCommands(_, _)
FormatCommands(text, from) ==
  LET o == IndexFrom(text, OPEN, from)
      c == IF o = 0 THEN 0 ELSE IndexFrom(text, CLOSE, o + 1)
  IN IF c = 0 THEN SubSeq(text, from, Len(text))
     ELSE SubSeq(text, from, o - 1) \o TrimSpace(SubSeq(text, o + 1, c - 1))
            \o FormatCommands(text, c + 1)

formatContent(content) == FormatCommands(FormatCode(content, 1), 1)

\* how many "\n" a text holds
Newlines(text) == Cardinality({i \in 1..Len(text) : text[i] = NL})


\* Go's integer division, which truncates toward zero
GoDiv(a, b) == IF a >= 0 THEN a \div b ELSE -((-a) \div b)

RECURSIVE SumTo(_, _)
\* f[1] + ... + f[n]
SumTo(f, n) == IF n = 0 THEN 0 ELSE f[n] + SumTo(f, n - 1)

(***************************************************************************)
(* Messages and conversations (internal/storage).                          *)
(***************************************************************************)
systemPrompt == <<"sys">>

Message(role, content) == [role |-> role, content |-> content]

systemMsg == Message("system", systemPrompt)

\* len(s) of a text: the bytes its tokens stand for
tokenBytes(t) ==
  CASE t = OPEN -> 9
    [] t = CLOSE -> 10
    [] t = FENCE -> 3
    [] t = "long" -> 60
    [] OTHER -> 1

textBytes(text) == SumTo([i \in 1..Len(text) |-> tokenBytes(text[i])], Len(text))

summaryLimit == 50

\* summary[:47] + "...": the cut prefix is kept symbolic
cutSummary(text) ==
  IF textBytes(text) > summaryLimit THEN <<"[:47]">> \o text \o <<"...">> ELSE text

\* the summary both handlers derive: the first user message, cut at 50;
\* without a user message the summary stays as it was
summaryOf(msgs, old) ==
  LET us == {i \in 1..Len(msgs) : msgs[i].role = "user"}
  IN IF us = {} THEN old
     ELSE cutSummary(msgs[CHOOSE i \in us : \A j \in us : i <= j].content)

(***************************************************************************)
(* The rendered views, as far as the viewport sees them: their line        *)
(* structure.  lipgloss styles here add colour and horizontal padding only,*)
(* so a rendered text has the newlines of the text it renders.             *)
(***************************************************************************)
helpLines == 12

\* newlines of one message's rendering (assistant text goes through formatContent)
msgNewlines(msg) ==
  IF msg.role = "assistant" THEN Newlines(formatContent(msg.content))
  ELSE Newlines(msg.content)

\* normalView: lines of strings.Split(content, "\n")
normalViewLines(m) ==
  LET n == Len(m.messages)
      per == [i \in 1..n |->
                IF m.messages[i].role = "system"
                  THEN (IF n > 1 THEN 2 ELSE 0)
                  ELSE msgNewlines(m.messages[i]) + 2]
  IN 1 + SumTo(per, n)

\* editingView: newlines message i (zero-based) contributes
editingMsgNewlines(m, i) ==
  LET msg == m.messages[i + 1]
      bar == IF i = m.cursorIndex /\ msg.role \in {"user", "assistant"}
               THEN 1 ELSE 0
  IN msgNewlines(msg) + bar + 2

editingViewLines(m) ==
  LET n == Len(m.messages)
      per == [i \in 1..n |-> editingMsgNewlines(m, i - 1)]
  IN 1 + 2 + SumTo(per, n)

\* editingView: index of the first line of message i (zero-based)
editingFirstLine(m, i) ==
  LET per == [k \in 1..i |-> editingMsgNewlines(m, k - 1)]
  IN 2 + SumTo(per, i)

\* historyView: two header lines, one line per conversation, one extra newline
historyViewLines(m) == 1 + 2 + Len(m.conversations) + 1

\* commandSelectView
commandSelectViewLines(m) ==
  LET n == Len(m.commands)
      per == [i \in 1..n |-> Newlines(m.commands[i]) + 1]
  IN IF n = 1 THEN 1 + 2 + Newlines(m.commands[1]) + 2
     ELSE 1 + 2 + SumTo(per, n)

\* the content updateViewport generates for the current mode
viewLines(m) ==
  CASE m.mode = "Normal" -> normalViewLines(m)
    [] m.mode = "Editing" -> editingViewLines(m)
    [] m.mode = "History" -> historyViewLines(m)
    [] m.mode = "CommandSelect" -> commandSelectViewLines(m)
    [] m.mode = "Help" -> helpLines

(***************************************************************************)
(* The viewport (bubbles/viewport): the Scroll/Viewport Manager of the     *)
(* specification, section 4.2.  Its state is the fields YOffset, vpHeight, *)
(* vpLines (the line count of the content buffer) and vpView (which view   *)
(* the buffer was generated from).                                         *)
(***************************************************************************)
maxYOffset(m) == Max(0, m.vpLines - m.vpHeight)

SetYOffset(m, n) == [m EXCEPT !.YOffset = Max(0, Min(n, maxYOffset(m)))]

AtTop(m) == m.YOffset <= 0
AtBottom(m) == m.YOffset >= maxYOffset(m)

GotoTop(m) == IF AtTop(m) THEN m ELSE SetYOffset(m, 0)
GotoBottom(m) == SetYOffset(m, maxYOffset(m))

SetContent(m, lines, view) ==
  LET m1 == [m EXCEPT !.vpLines = lines, !.vpView = view]
  IN IF m1.YOffset > lines - 1 THEN GotoBottom(m1) ELSE m1

LineDown(m, n) ==
  IF AtBottom(m) \/ n = 0 \/ m.vpLines = 0 THEN m
  ELSE SetYOffset(m, m.YOffset + n)

LineUp(m, n) ==
  IF AtTop(m) \/ n = 0 \/ m.vpLines = 0 THEN m
  ELSE SetYOffset(m, m.YOffset - n)

HalfViewDown(m) ==
  IF AtBottom(m) THEN m ELSE SetYOffset(m, m.YOffset + GoDiv(m.vpHeight, 2))

HalfViewUp(m) ==
  IF AtTop(m) THEN m ELSE SetYOffset(m, m.YOffset - GoDiv(m.vpHeight, 2))

(***************************************************************************)
(* main.go: the engine's own scroll code.                                  *)
(***************************************************************************)
\* model.updateViewport, after SetContent: help goes to the top, any other
\* mode gets the offset it had, clamped to the new content
restoreOffset(m2, currentOffset) ==
  IF m2.mode = "Help" THEN GotoTop(m2)
  ELSE IF currentOffset >= 0 /\ currentOffset <= Max(0, m2.vpLines - m2.vpHeight)
         THEN [m2 EXCEPT !.YOffset = currentOffset]
  ELSE IF currentOffset > Max(0, m2.vpLines - m2.vpHeight)
         THEN [m2 EXCEPT !.YOffset = Max(0, m2.vpLines - m2.vpHeight)]
  ELSE m2

\* model.updateViewport
updateViewport(m) ==
  restoreOffset(SetContent([m EXCEPT !.vpHeight = m.height - 7],
                           viewLines(m), m.mode),
                m.YOffset)

\* model.ensureConversationVisible, after SetContent
conversationOffset(m1, index, totalLines) ==
  [m1 EXCEPT !.YOffset =
     Min(Max((index + 2) - GoDiv(m1.vpHeight, 2), 0),
         Max(0, totalLines - m1.vpHeight + 1))]

\* model.ensureConversationVisible
ensureConversationVisible(m, index) ==
  conversationOffset(SetContent(m, historyViewLines(m), "History"), index,
                     historyViewLines(m))

\* model.ensureMessageVisible: the label scan counts labelled lines from 0
\* and stops at the one whose count equals the message index
labelledTarget(m, index) ==
  LET labelled == {i \in 0..(Len(m.messages) - 1) :
                     m.messages[i + 1].role \in {"user", "assistant"}}
      hit == {i \in labelled :
                Cardinality({j \in labelled : j < i}) = index}
  IN IF hit = {} THEN 0 ELSE editingFirstLine(m, CHOOSE i \in hit : TRUE)

\* model.ensureMessageVisible, the offset wanted: a quarter of the viewport
\* above the target line, the bottom for the last message, clamped
desiredMessageOffset(m, index, targetLine, maxScroll) ==
  Min(Max(IF index = Len(m.messages) - 1 THEN maxScroll
          ELSE targetLine - GoDiv(m.vpHeight, 4), 0),
      maxScroll)

\* model.ensureMessageVisible, the scroll: GotoTop, then desiredOffset times
\* LineDown(1), each of which stops at the bottom
scrollDownFromTop(m2, desiredOffset) ==
  IF desiredOffset > 0 THEN LineDown(m2, Min(desiredOffset, maxYOffset(m2)))
  ELSE m2

ensureMessageVisible(m, index) ==
  scrollDownFromTop(
    GotoTop(SetContent(m, editingViewLines(m), "Editing")),
    desiredMessageOffset(m, index, labelledTarget(m, index),
                         Max(0, editingViewLines(m) - m.vpHeight)))


(***************************************************************************)
(* Inputs the environment can supply.                                      *)
(***************************************************************************)
\* terminal heights a WindowSizeMsg can carry (the viewport gets height - 7)
Heights == {5, 11, 14}

\* texts the assistant can answer with
Replies == { <<"ok">>,
             <<"run", OPEN, SP, "ls", SP, CLOSE>>,
             <<OPEN, "ls", CLOSE, NL, OPEN, "pwd", NL, CLOSE>> }

\* texts the external editor can leave in the temporary file
EditTexts == { <<"b", NL>>, <<"long", NL>> }

\* combined outputs a shell command can produce
Outputs == { <<"out", NL>> }

\* every rune typed into the input line is an ordinary character
TypedToken == "a"

\* runes the mode tables look at, and one they do not
Runes == {"j", "k", "x", "c", "1", "2", "z"}

(***************************************************************************)
(* The conversation store: the files SaveConversation writes, keyed by    *)
(* creation time and id.  A conversation's id is its creation time here.   *)
(***************************************************************************)
Snapshot(id, msgs, summary) == [id |-> id, messages |-> msgs, summary |-> summary]

\* conversations earlier runs of the program left in the store
PresetConvs ==
  << Snapshot(1, <<systemMsg, Message("user", <<"a">>),
                   Message("assistant", <<"run", OPEN, SP, "ls", SP, CLOSE>>)>>,
              <<"a">>),
     Snapshot(2, <<systemMsg, Message("user", <<"a">>)>>, <<"a">>),
     Snapshot(3, <<systemMsg, Message("user", <<"a">>),
                   Message("assistant", <<"ok">>)>>, <<"a">>) >>

FirstId == Len(PresetConvs) + 1
ConvIds == 1..(FirstId + MaxNewChats)

EmptyStore == [id \in ConvIds |-> <<>>]
PresetStore == [id \in ConvIds |->
                  IF id <= Len(PresetConvs) THEN <<PresetConvs[id]>> ELSE <<>>]

RECURSIVE listFrom(_, _)
\* Storage.ListConversations: the stored conversations in file-name order
listFrom(st, id) ==
  IF id \notin ConvIds THEN <<>> ELSE st[id] \o listFrom(st, id + 1)

ListConversations(st) == listFrom(st, 1)

\* sort.Slice(..., CreatedAt.After): most recent first
sortByRecency(convs) ==
  [i \in 1..Len(convs) |->
     CHOOSE c \in {convs[k] : k \in 1..Len(convs)} :
       Cardinality({k \in 1..Len(convs) : convs[k].id > c.id}) = i - 1]

(***************************************************************************)
(* State.                                                                  *)
(***************************************************************************)
VARIABLES
  m,          \* the model struct of main.go
  store,      \* the conversation files on disk
  apiTasks,   \* completion requests in flight: the history each one carries
  editTasks,  \* editor invocations in flight: index and content
  execTasks,  \* shell commands in flight
  clipTasks,  \* clipboard processes in flight
  tmpFiles,   \* temporary files of editMessageCmd that exist
  status,     \* "run", "quit" (tea.Quit) or "panic" (a Go run-time panic)
  nextId,     \* the creation time the next new conversation gets
  last,       \* the event processed last: its name, arguments, and the save it made
  events      \* how many events the loop has processed

vars == <<m, store, apiTasks, editTasks, execTasks, clipTasks, tmpFiles,
          status, nextId, last, events>>

\* the loop takes the next event: the program runs and the model's budget
\* of events is not used up
Running == status = "run" /\ events < MaxEvents /\ events' = events + 1

Ev(name, arg, saved) ==
  [ev |-> name, arg |-> arg, saved |-> saved, list |-> FALSE]

\* initialModel
initialModel ==
  [ mode |-> "Normal",
    messages |-> <<systemMsg>>,
    conv |-> [id |-> FirstId, summary |-> <<>>],
    cursorIndex |-> 0,
    conversations |-> <<>>,
    selectedConv |-> 0,
    isLoading |-> FALSE,
    height |-> 0,
    commands |-> <<>>,
    selectedCommand |-> 0,
    lastLoadedConv |-> -1,
    err |-> "",
    input |-> <<>>,
    YOffset |-> 0,
    vpHeight |-> 0,
    vpLines |-> 0,
    vpView |-> "none" ]

Init ==
  /\ m = initialModel
  /\ store \in {EmptyStore, PresetStore}
  /\ apiTasks = <<>>
  /\ editTasks = <<>>
  /\ execTasks = <<>>
  /\ clipTasks = 0
  /\ tmpFiles = 0
  /\ status = "run"
  /\ nextId = FirstId + 1
  /\ last = Ev("init", <<>>, <<>>)
  /\ events = 0

\* the current conversation as SaveConversation would write it
current(mm) == Snapshot(mm.conv.id, mm.messages, mm.conv.summary)

\* a sequence without its k-th element
Without(seq, k) == SubSeq(seq, 1, k - 1) \o SubSeq(seq, k + 1, Len(seq))

\* an event that changes the model struct only
Only(newm, name, arg) ==
  /\ m' = newm
  /\ last' = Ev(name, arg, <<>>)
  /\ UNCHANGED <<tmpFiles, store, apiTasks, editTasks, execTasks, clipTasks, status, nextId>>

\* an event that calls m.storage.ListConversations() and changes the model
\* struct only
Listing(newm, name, arg) ==
  /\ m' = newm
  /\ last' = [Ev(name, arg, <<>>) EXCEPT !.list = TRUE]
  /\ UNCHANGED <<tmpFiles, store, apiTasks, editTasks, execTasks, clipTasks, status, nextId>>

\* an event that ends the program: tea.Quit, or a panic
Stop(how, name, arg) ==
  /\ status' = how
  /\ last' = Ev(name, arg, <<>>)
  /\ UNCHANGED <<tmpFiles, m, store, apiTasks, editTasks, execTasks, clipTasks, nextId>>


\* executeCommand(cmdStr) is returned as the handler's command
Dispatch(cmdStr, name, arg) ==
  /\ Len(execTasks) < MaxInFlight
  /\ m' = [m EXCEPT !.mode = "Normal"]
  /\ execTasks' = Append(execTasks, [cmd |-> cmdStr, conv |-> m.conv.id])
  /\ last' = Ev(name, arg, <<>>)
  /\ UNCHANGED <<tmpFiles, store, apiTasks, editTasks, clipTasks, status, nextId>>


(***************************************************************************)
(* Helpers of Update.                                                      *)
(***************************************************************************)
CursorInRange(mm) == mm.cursorIndex >= 0 /\ mm.cursorIndex < Len(mm.messages)

\* handleCommandExecution: the text of the target message, empty when
\* there is no target
targetMsg(mm) ==
  LET asst == {i \in 1..Len(mm.messages) : mm.messages[i].role = "assistant"}
  IN IF mm.mode = "Editing"
       THEN (IF mm.messages[mm.cursorIndex + 1].role = "assistant"
               THEN mm.messages[mm.cursorIndex + 1].content ELSE <<>>)
     ELSE IF asst = {} THEN <<>>
     ELSE mm.messages[CHOOSE i \in asst : \A j \in asst : i >= j].content

\* handleCommandExecution, once the commands are extracted
selectCommands(mm, target, matches) ==
  IF target = <<>> THEN mm
  ELSE IF Len(matches) = 0 THEN mm
  ELSE [mm EXCEPT !.mode = "CommandSelect", !.commands = matches,
                  !.selectedCommand = 0]

handleCommandExecution(mm) ==
  selectCommands(mm, targetMsg(mm), ExtractCommands(targetMsg(mm)))

\* executeCommand: the text of the commandOutputMsg a finished command sends
commandReport(cmdStr, failed, output) ==
  <<"Command ran: ">> \o cmdStr \o <<NL, "Command result:", NL>>
    \o (IF failed THEN <<"Command failed: exit status 1", NL>>
        ELSE <<"Command executed successfully", NL>>)
    \o output

\* the history moves: a changed selection is scrolled into view
historyMove(mm, sel) ==
  IF sel # mm.selectedConv
    THEN ensureConversationVisible([mm EXCEPT !.selectedConv = sel], sel)
    ELSE mm

\* ModeHelp: any key that reaches the mode switch
helpDismiss(mm) == updateViewport([mm EXCEPT !.mode = "Normal"])

\* the apiResponseMsg handler's summary: set from the first user message
\* only while the summary is empty
replySummary(mm) ==
  IF mm.conv.summary = <<>> THEN summaryOf(mm.messages, mm.conv.summary)
  ELSE mm.conv.summary

\* Storage.SaveConversation followed by the handlers' "if err != nil":
\* the file is replaced as a whole, or the write fails and m.err is set
saveResult(mm, wrote) == IF wrote THEN mm ELSE [mm EXCEPT !.err = "save"]

\* a variant of the save that writes the messages without the summary
SaveConversationNoSummary(st, snap, wrote) ==
  IF wrote THEN [st EXCEPT ![snap.id] = <<[snap EXCEPT !.summary = <<>>]>>] ELSE st

SaveConversation(st, snap, wrote) ==
  IF wrote THEN [st EXCEPT ![snap.id] = <<snap>>] ELSE st


(***************************************************************************)
(* Update: window size and mouse.                                          *)
(***************************************************************************)
\* case tea.WindowSizeMsg
WindowSize(h) ==
  /\ Running
  /\ Only(updateViewport([m EXCEPT !.height = h]), "resize", <<h>>)

\* case tea.MouseWheelUp
MouseWheelUp ==
  /\ Running
  /\ Only(IF m.mode = "History"
            THEN historyMove(m, Max(0, m.selectedConv - 1))
            ELSE LineUp(m, 3),
          "mouse", <<"wheelup">>)

\* case tea.MouseWheelDown
MouseWheelDown ==
  /\ Running
  /\ Only(IF m.mode = "History"
            THEN historyMove(m, Min(Len(m.conversations) - 1, m.selectedConv + 1))
            ELSE LineDown(m, 3),
          "mouse", <<"wheeldown">>)

(***************************************************************************)
(* Update: the mode-independent keys.                                      *)
(***************************************************************************)
\* case "ctrl+c"
KeyCtrlC ==
  /\ Running
  /\ Stop("quit", "key", <<"ctrl+c">>)

\* a variant of "ctrl+x" that runs a single extracted command at once
KeyCtrlXAutoRun ==
  /\ Running
  /\ IF m.mode = "Editing" /\ ~CursorInRange(m)
       THEN Stop("panic", "key", <<"ctrl+x">>)
     ELSE IF Len(ExtractCommands(targetMsg(m))) = 1
       THEN Dispatch(ExtractCommands(targetMsg(m))[1], "key", <<"ctrl+x">>)
     ELSE Only(handleCommandExecution(m), "key", <<"ctrl+x">>)

\* case "ctrl+x": handleCommandExecution, which indexes messages[cursorIndex]
\* in Editing mode
KeyCtrlX ==
  /\ Running
  /\ IF m.mode = "Editing" /\ ~CursorInRange(m)
       THEN Stop("panic", "key", <<"ctrl+x">>)
       ELSE Only(handleCommandExecution(m), "key", <<"ctrl+x">>)

\* case "ctrl+j", "ctrl+k"
KeyCtrlJK ==
  /\ Running
  /\ Only(updateViewport([m EXCEPT !.mode = "Editing",
                                   !.cursorIndex = Len(m.messages) - 1]),
          "key", <<"ctrl+j">>)

\* case "ctrl+l"
\* the conversation c becomes the current one
withConversation(mm, c) ==
  [mm EXCEPT !.conv = [id |-> c.id, summary |-> c.summary],
             !.messages = c.messages]

\* "ctrl+l" with the listed conversations, most recent first
loadNext(mm, conversations) ==
  IF Len(conversations) = 0 THEN mm
  ELSE IF mm.lastLoadedConv + 1 >= Len(conversations)
    THEN GotoBottom(updateViewport(
           withConversation([mm EXCEPT !.lastLoadedConv = 0], conversations[1])))
  ELSE GotoBottom(updateViewport(
         withConversation([mm EXCEPT !.lastLoadedConv = mm.lastLoadedConv + 1],
                          conversations[mm.lastLoadedConv + 2])))

KeyCtrlL ==
  /\ Running
  /\ \E listed \in BOOLEAN :
       IF listed
         THEN Listing(loadNext(m, sortByRecency(ListConversations(store))),
                      "key", <<"ctrl+l">>)
         ELSE Listing([m EXCEPT !.err = "list"], "key", <<"ctrl+l", "failed">>)

\* a variant of "ctrl+n" that leaves the mode as it is
KeyCtrlNKeepsMode ==
  /\ Running
  /\ nextId \in ConvIds
  /\ m' = updateViewport([m EXCEPT !.conv = [id |-> nextId, summary |-> <<>>],
                                   !.messages = <<systemMsg>>])
  /\ nextId' = nextId + 1
  /\ last' = Ev("key", <<"ctrl+n", m.mode>>, <<>>)
  /\ UNCHANGED <<tmpFiles, store, apiTasks, editTasks, execTasks, clipTasks, status>>

\* a variant of "ctrl+n" that does not add the system message
KeyCtrlNNoSystem ==
  /\ Running
  /\ nextId \in ConvIds
  /\ m' = updateViewport([m EXCEPT !.conv = [id |-> nextId, summary |-> <<>>],
                                   !.messages = <<>>,
                                   !.mode = "Normal"])
  /\ nextId' = nextId + 1
  /\ last' = Ev("key", <<"ctrl+n", m.mode>>, <<>>)
  /\ UNCHANGED <<tmpFiles, store, apiTasks, editTasks, execTasks, clipTasks, status>>

\* case "ctrl+n"
KeyCtrlN ==
  /\ Running
  /\ nextId \in ConvIds
  /\ m' = updateViewport([m EXCEPT !.conv = [id |-> nextId, summary |-> <<>>],
                                   !.messages = <<systemMsg>>,
                                   !.mode = "Normal"])
  /\ nextId' = nextId + 1
  /\ last' = Ev("key", <<"ctrl+n", m.mode>>, <<>>)
  /\ UNCHANGED <<tmpFiles, store, apiTasks, editTasks, execTasks, clipTasks, status>>

\* case "ctrl+h"
KeyCtrlH ==
  /\ Running
  /\ Only(updateViewport([m EXCEPT !.mode = "Help"]), "key", <<"ctrl+h">>)

(***************************************************************************)
(* Update: the keys the mode switch handles.                               *)
(***************************************************************************)
\* "up" / tea.KeyUp
KeyUp ==
  /\ Running
  /\ Only(CASE m.mode \in {"Normal", "Editing"} -> LineUp(m, 3)
            [] m.mode = "History" -> historyMove(m, Max(0, m.selectedConv - 1))
            [] m.mode = "CommandSelect" ->
                 IF m.selectedCommand > 0
                   THEN [m EXCEPT !.selectedCommand = m.selectedCommand - 1]
                   ELSE m
            [] m.mode = "Help" -> helpDismiss(m),
          "key", <<"up">>)

\* "down" / tea.KeyDown
KeyDown ==
  /\ Running
  /\ Only(CASE m.mode \in {"Normal", "Editing"} -> LineDown(m, 3)
            [] m.mode = "History" ->
                 historyMove(m, Min(Len(m.conversations) - 1, m.selectedConv + 1))
            [] m.mode = "CommandSelect" ->
                 IF m.selectedCommand < Len(m.commands) - 1
                   THEN [m EXCEPT !.selectedCommand = m.selectedCommand + 1]
                   ELSE m
            [] m.mode = "Help" -> helpDismiss(m),
          "key", <<"down">>)

\* "pgup" / tea.KeyPgUp
KeyPgUp ==
  /\ Running
  /\ Only(CASE m.mode = "Normal" -> HalfViewUp(m)
            [] m.mode = "History" ->
                 historyMove(m, Max(0, m.selectedConv - m.vpHeight))
            [] m.mode = "Help" -> helpDismiss(m)
            [] OTHER -> m,
          "key", <<"pgup">>)

\* "pgdn" / tea.KeyPgDown
KeyPgDown ==
  /\ Running
  /\ Only(CASE m.mode = "Normal" -> HalfViewDown(m)
            [] m.mode = "History" ->
                 historyMove(m, Min(Len(m.conversations) - 1,
                                    m.selectedConv + m.vpHeight))
            [] m.mode = "Help" -> helpDismiss(m)
            [] OTHER -> m,
          "key", <<"pgdn">>)

\* "home" / tea.KeyHome
KeyHome ==
  /\ Running
  /\ Only(CASE m.mode = "Normal" -> GotoTop(m)
            [] m.mode = "History" ->
                 ensureConversationVisible([m EXCEPT !.selectedConv = 0], 0)
            [] m.mode = "Help" -> helpDismiss(m)
            [] OTHER -> m,
          "key", <<"home">>)

\* "end" / tea.KeyEnd
KeyEnd ==
  /\ Running
  /\ Only(CASE m.mode = "Normal" -> GotoBottom(m)
            [] m.mode = "History" ->
                 ensureConversationVisible(
                   [m EXCEPT !.selectedConv = Len(m.conversations) - 1],
                   Len(m.conversations) - 1)
            [] m.mode = "Help" -> helpDismiss(m)
            [] OTHER -> m,
          "key", <<"end">>)

\* tea.KeyEsc
KeyEsc ==
  /\ Running
  /\ IF m.mode = "Normal" THEN Stop("quit", "key", <<"esc">>)
     ELSE Only(IF m.mode = "CommandSelect" THEN [m EXCEPT !.mode = "Normal"]
               ELSE updateViewport([m EXCEPT !.mode = "Normal"]),
               "key", <<"esc">>)

\* tea.KeyCtrlR in ModeNormal: the mode is set, then the list is read
browseHistory(mm, listed, conversations) ==
  IF listed
    THEN updateViewport([mm EXCEPT !.mode = "History",
                                   !.conversations = conversations,
                                   !.selectedConv = 0])
    ELSE [mm EXCEPT !.mode = "History", !.err = "list"]

\* a variant of tea.KeyCtrlR that reads the list in every mode
KeyCtrlRListsAlways ==
  /\ Running
  /\ \E listed \in BOOLEAN :
       Listing(CASE m.mode = "Normal" ->
                      browseHistory(m, listed, ListConversations(store))
                 [] m.mode = "Help" -> helpDismiss(m)
                 [] OTHER -> m,
               "key", <<"ctrl+r", IF listed \/ m.mode # "Normal" THEN "ok" ELSE "failed">>)

\* tea.KeyCtrlR
KeyCtrlR ==
  /\ Running
  /\ IF m.mode = "Normal"
       THEN \E listed \in BOOLEAN :
              Listing(browseHistory(m, listed, ListConversations(store)),
                      "key", <<"ctrl+r", IF listed THEN "ok" ELSE "failed">>)
       ELSE Only(IF m.mode = "Help" THEN helpDismiss(m) ELSE m,
                 "key", <<"ctrl+r", "ok">>)


\* tea.KeyEnter in ModeNormal: send the input line
\* client.CreateMessage(claudeMsgs) is returned as the handler's command
Request(msgs, conv) == [hist |-> msgs, conv |-> conv]

SendInput ==
  /\ m.mode = "Normal"
  /\ IF m.input = <<>> THEN Only(m, "key", <<"enter">>)
     ELSE /\ Len(m.messages) < MaxMsgs
          /\ Len(apiTasks) < MaxInFlight
          /\ m' = [GotoBottom(updateViewport(
                     [m EXCEPT !.messages =
                                 Append(m.messages, Message("user", m.input))]))
                     EXCEPT !.isLoading = TRUE, !.input = <<>>]
          /\ apiTasks' = Append(apiTasks,
                                Request(Append(m.messages, Message("user", m.input)),
                                        m.conv.id))
          /\ last' = Ev("key", <<"enter", "send">>, <<>>)
          /\ UNCHANGED <<tmpFiles, store, editTasks, execTasks, clipTasks, status, nextId>>

\* editMessageCmd: how far it gets.  "create": os.CreateTemp fails, no file
\* exists; "write": the file is created and WriteString fails; "editor":
\* the file is written and the editor process is started
EditStages == {"create", "write", "editor"}

\* tea.KeyEnter in ModeEditing: start the editor on a user message
EditEnter ==
  /\ m.mode = "Editing"
  /\ IF ~CursorInRange(m) THEN Stop("panic", "key", <<"enter">>)
     ELSE IF m.messages[m.cursorIndex + 1].role = "user"
       THEN /\ Len(editTasks) < MaxInFlight
            /\ \E stage \in EditStages :
                 /\ editTasks' = Append(editTasks,
                      [index |-> m.cursorIndex,
                       content |-> m.messages[m.cursorIndex + 1].content,
                       stage |-> stage,
                       conv |-> m.conv.id])
                 /\ tmpFiles' = IF stage = "create" THEN tmpFiles ELSE tmpFiles + 1
            /\ last' = Ev("key", <<"enter", "edit">>, <<>>)
            /\ UNCHANGED <<m, store, apiTasks, execTasks, clipTasks, status, nextId>>
     ELSE Only(updateViewport([m EXCEPT !.mode = "Normal"]), "key", <<"enter">>)

\* tea.KeyEnter in ModeHistory: load the selected conversation
HistoryEnter ==
  /\ m.mode = "History"
  /\ IF Len(m.conversations) = 0 THEN Only(m, "key", <<"enter">>)
     ELSE IF m.selectedConv < 0 \/ m.selectedConv >= Len(m.conversations)
       THEN Stop("panic", "key", <<"enter">>)
     ELSE Only(GotoBottom(updateViewport(
                 withConversation([m EXCEPT !.mode = "Normal"],
                                  sortByRecency(m.conversations)[m.selectedConv + 1]))),
               "key", <<"enter", "select">>)

\* tea.KeyEnter in ModeCommandSelect: run the selected command
CommandEnter ==
  /\ m.mode = "CommandSelect"
  /\ IF Len(m.commands) > 0
       THEN Dispatch(m.commands[m.selectedCommand + 1], "key", <<"enter", "run">>)
       ELSE Only(m, "key", <<"enter">>)

\* tea.KeyEnter
KeyEnter ==
  /\ Running
  /\ \/ SendInput
     \/ EditEnter
     \/ HistoryEnter
     \/ CommandEnter
     \/ m.mode = "Help" /\ Only(helpDismiss(m), "key", <<"enter">>)

\* tea.ExecProcess(clipboard command, ...) is returned as the handler's command
Copy(arg) ==
  /\ clipTasks < MaxInFlight
  /\ m' = [m EXCEPT !.mode = "Normal"]
  /\ clipTasks' = clipTasks + 1
  /\ last' = Ev("key", arg, <<>>)
  /\ UNCHANGED <<tmpFiles, store, apiTasks, editTasks, execTasks, status, nextId>>

\* tea.KeyRunes in ModeNormal: the rune goes to the text input
TypeRune(r) ==
  /\ m.mode = "Normal"
  /\ Only(IF Len(m.input) < InputLimit
            THEN [m EXCEPT !.input = Append(m.input, TypedToken)] ELSE m,
          "key", <<r>>)

\* tea.KeyRunes in ModeEditing: k, j, x, c
EditRune(r) ==
  /\ m.mode = "Editing"
  /\ CASE r = "k" /\ m.cursorIndex > 1 ->
            Only(ensureMessageVisible([m EXCEPT !.cursorIndex = m.cursorIndex - 1],
                                      m.cursorIndex - 1),
                 "key", <<r>>)
       [] r = "j" /\ m.cursorIndex < Len(m.messages) - 1 ->
            Only(ensureMessageVisible([m EXCEPT !.cursorIndex = m.cursorIndex + 1],
                                      m.cursorIndex + 1),
                 "key", <<r>>)
       [] r = "x" ->
            IF ~CursorInRange(m) THEN Stop("panic", "key", <<r>>)
            ELSE IF m.messages[m.cursorIndex + 1].role = "assistant"
              THEN Only(handleCommandExecution(m), "key", <<r>>)
            ELSE Only(m, "key", <<r>>)
       [] r = "c" /\ m.cursorIndex < Len(m.messages) -> Copy(<<r, "copy">>)
       [] OTHER -> Only(m, "key", <<r>>)

\* tea.KeyRunes in ModeCommandSelect: c, or the number of a command
CommandRune(r) ==
  /\ m.mode = "CommandSelect"
  /\ LET num == CASE r = "1" -> 1 [] r = "2" -> 2 [] OTHER -> 0
     IN CASE r = "c" /\ Len(m.commands) > 0 -> Copy(<<r, "copy">>)
          [] num > 0 /\ num <= Len(m.commands) ->
               Dispatch(m.commands[num], "key", <<r, "run">>)
          [] OTHER -> Only(m, "key", <<r>>)

\* tea.KeyRunes
KeyRune(r) ==
  /\ Running
  /\ \/ TypeRune(r)
     \/ EditRune(r)
     \/ CommandRune(r)
     \/ m.mode = "History" /\ Only(m, "key", <<r>>)
     \/ m.mode = "Help" /\ Only(helpDismiss(m), "key", <<r>>)

(***************************************************************************)
(* Update: the results of the asynchronous commands.                       *)
(***************************************************************************)
\* a variant of the append that puts the reply before the last message
withReplyBeforeLast(mm, response) ==
  [mm EXCEPT !.isLoading = FALSE,
             !.messages = SubSeq(mm.messages, 1, Len(mm.messages) - 1)
                            \o <<Message("assistant", response)>>
                            \o <<mm.messages[Len(mm.messages)]>>]

\* the apiResponseMsg handler up to its summary: the reply is appended
withReply(mm, response) ==
  [mm EXCEPT !.isLoading = FALSE,
             !.messages = Append(mm.messages, Message("assistant", response))]

withSummary(mm) == [mm EXCEPT !.conv.summary = replySummary(mm)]

\* a variant of the tail that returns to Normal mode, as the editMessageMsg
\* handler does
SavedToNormal(m2, wrote, name, arg) ==
  /\ m' = GotoBottom(updateViewport(saveResult([m2 EXCEPT !.mode = "Normal"], wrote)))
  /\ store' = SaveConversation(store, current(m2), wrote)
  /\ last' = Ev(name, arg, <<current(m2)>>)

\* the tail the apiResponseMsg and commandOutputMsg handlers share:
\* SaveConversation, updateViewport, GotoBottom
Saved(m2, wrote, name, arg) ==
  /\ m' = GotoBottom(updateViewport(saveResult(m2, wrote)))
  /\ store' = SaveConversation(store, current(m2), wrote)
  /\ last' = Ev(name, arg, <<current(m2)>>)

\* a variant of the error branch that returns before isLoading is cleared
ApiErrorStillLoading(k) ==
  /\ Running
  /\ k \in 1..Len(apiTasks)
  /\ m' = [m EXCEPT !.err = "api"]
  /\ apiTasks' = Without(apiTasks, k)
  /\ last' = Ev("apiResponse", <<"error", apiTasks[k]>>, <<>>)
  /\ UNCHANGED <<tmpFiles, store, editTasks, execTasks, clipTasks, status, nextId>>

\* case apiResponseMsg, with an error
ApiError(k) ==
  /\ Running
  /\ k \in 1..Len(apiTasks)
  /\ m' = [m EXCEPT !.isLoading = FALSE, !.err = "api"]
  /\ apiTasks' = Without(apiTasks, k)
  /\ last' = Ev("apiResponse", <<"error", apiTasks[k]>>, <<>>)
  /\ UNCHANGED <<tmpFiles, store, editTasks, execTasks, clipTasks, status, nextId>>

\* case apiResponseMsg, with a response
ApiReply(k, response, wrote) ==
  /\ Running
  /\ k \in 1..Len(apiTasks)
  /\ Len(m.messages) < MaxMsgs
  /\ Saved(withSummary(withReply(m, response)), wrote,
           "apiResponse", <<"ok", apiTasks[k], response, wrote>>)
  /\ apiTasks' = Without(apiTasks, k)
  /\ UNCHANGED <<tmpFiles, editTasks, execTasks, clipTasks, status, nextId>>

\* editMessageCmd's "defer os.Remove(tmpFile.Name())": it is in the callback
\* of tea.ExecProcess, which runs only when the editor was started
removeTemp(task) == IF task.stage = "editor" THEN tmpFiles - 1 ELSE tmpFiles

\* case editMessageMsg, with an error: the editor failed, the file could not
\* be read back, or editMessageCmd failed before starting the editor
EditError(k) ==
  /\ Running
  /\ k \in 1..Len(editTasks)
  /\ m' = [m EXCEPT !.err = "edit"]
  /\ editTasks' = Without(editTasks, k)
  /\ tmpFiles' = removeTemp(editTasks[k])
  /\ last' = Ev("editResult", <<"error", editTasks[k].index, editTasks[k].stage>>,
                <<>>)
  /\ UNCHANGED <<store, apiTasks, execTasks, clipTasks, status, nextId>>

\* a variant of the edit that keeps the messages after the edited one
editedMessagesKeepTail(msgs, index, edited) ==
  [msgs EXCEPT ![index + 1].content = edited]

\* the editMessageMsg handler's assignment and truncation:
\* messages[index].Content = edited; messages = messages[:index+1]
editedMessages(msgs, index, edited) ==
  [i \in 1..(index + 1) |->
     IF i = index + 1 THEN [msgs[i] EXCEPT !.content = edited] ELSE msgs[i]]

\* the editMessageMsg handler's summary: regenerated from the first user message
editSummary(mm) ==
  [mm EXCEPT !.conv.summary = summaryOf(mm.messages, mm.conv.summary)]

\* the editMessageMsg handler from SaveConversation on: save, back to
\* Normal, and a completion request carrying the message list
Committed(m2, wrote, index, edited) ==
  /\ m' = [saveResult(m2, wrote) EXCEPT !.mode = "Normal", !.isLoading = TRUE]
  /\ store' = SaveConversation(store, current(m2), wrote)
  /\ apiTasks' = Append(apiTasks, Request(m2.messages, m2.conv.id))
  /\ last' = Ev("editResult", <<"ok", index, edited, wrote, Len(m.messages)>>, <<current(m2)>>)

\* case editMessageMsg, with the edited text
EditCommit(k, edited, wrote) ==
  /\ Running
  /\ k \in 1..Len(editTasks)
  /\ editTasks[k].stage = "editor"
  /\ tmpFiles' = removeTemp(editTasks[k])
  /\ LET index == editTasks[k].index
     IN IF index >= Len(m.messages)
          THEN /\ status' = "panic"
               /\ editTasks' = Without(editTasks, k)
               /\ last' = Ev("editResult", <<"panic", index>>, <<>>)
               /\ UNCHANGED <<m, store, apiTasks, execTasks, clipTasks, nextId>>
          ELSE /\ Len(apiTasks) < MaxInFlight
               /\ Committed(editSummary(GotoBottom(updateViewport(
                              [m EXCEPT !.messages = editedMessages(m.messages, index, edited)]))),
                            wrote, index, edited)
               /\ editTasks' = Without(editTasks, k)
               /\ UNCHANGED <<execTasks, clipTasks, status, nextId>>

\* case commandOutputMsg, with an error: the command could not be run or
\* ended with a non-zero exit status
CommandFailed(k, output) ==
  /\ Running
  /\ k \in 1..Len(execTasks)
  /\ m' = [m EXCEPT !.err = "exec"]
  /\ execTasks' = Without(execTasks, k)
  /\ last' = Ev("commandOutput",
                <<"error", execTasks[k], commandReport(execTasks[k].cmd, TRUE, output)>>,
                <<>>)
  /\ UNCHANGED <<tmpFiles, store, apiTasks, editTasks, clipTasks, status, nextId>>

\* the commandOutputMsg handler's message: the report in a code fence
withOutput(mm, report) ==
  [mm EXCEPT !.messages =
     Append(mm.messages, Message("assistant", <<FENCE, NL>> \o report \o <<FENCE>>))]

\* case commandOutputMsg, without an error
CommandOutput(k, output, wrote) ==
  /\ Running
  /\ k \in 1..Len(execTasks)
  /\ Len(m.messages) < MaxMsgs
  /\ Saved(withOutput(m, commandReport(execTasks[k].cmd, FALSE, output)), wrote,
           "commandOutput",
           <<"ok", execTasks[k], commandReport(execTasks[k].cmd, FALSE, output),
             wrote>>)
  /\ execTasks' = Without(execTasks, k)
  /\ UNCHANGED <<tmpFiles, apiTasks, editTasks, clipTasks, status, nextId>>

\* the clipboard process ends, with or without an error: in both branches
\* its callback returns nil, and no message reaches Update
ClipDone(failed) ==
  /\ Running
  /\ clipTasks > 0
  /\ clipTasks' = clipTasks - 1
  /\ last' = Ev("clipDone", <<IF failed THEN "failed" ELSE "ok">>, <<>>)
  /\ UNCHANGED <<tmpFiles, m, store, apiTasks, editTasks, execTasks, status, nextId>>

(***************************************************************************)
(* The event loop: one event at a time, each processed to completion.      *)
(***************************************************************************)
Next ==
  \/ \E h \in Heights : WindowSize(h)
  \/ MouseWheelUp
  \/ MouseWheelDown
  \/ KeyCtrlC
  \/ KeyCtrlX
  \/ KeyCtrlJK
  \/ KeyCtrlL
  \/ KeyCtrlN
  \/ KeyCtrlH
  \/ KeyUp
  \/ KeyDown
  \/ KeyPgUp
  \/ KeyPgDown
  \/ KeyHome
  \/ KeyEnd
  \/ KeyEsc
  \/ KeyCtrlR
  \/ KeyEnter
  \/ \E r \in Runes : KeyRune(r)
  \/ \E k \in 1..MaxInFlight : ApiError(k)
  \/ \E k \in 1..MaxInFlight, response \in Replies, wrote \in BOOLEAN :
       ApiReply(k, response, wrote)
  \/ \E k \in 1..MaxInFlight : EditError(k)
  \/ \E k \in 1..MaxInFlight, edited \in EditTexts, wrote \in BOOLEAN :
       EditCommit(k, edited, wrote)
  \/ \E k \in 1..MaxInFlight, output \in Outputs : CommandFailed(k, output)
  \/ \E k \in 1..MaxInFlight, output \in Outputs, wrote \in BOOLEAN :
       CommandOutput(k, output, wrote)
  \/ \E failed \in BOOLEAN : ClipDone(failed)

Spec == Init /\ [][Next]_vars

(***************************************************************************)
(* The extraction on every reply text: the engine has sent "a" and the     *)
(* assistant has answered with an arbitrary text over the tokens the       *)
(* extraction distinguishes; the operator then asks for the commands.      *)
(***************************************************************************)
TextTokens == {OPEN, CLOSE, SP, "ls", "pwd"}

Texts == UNION {[1..n -> TextTokens] : n \in 0..MaxTextLen}

\* the model struct after "a", Enter
sentModel ==
  [GotoBottom(updateViewport(
     [initialModel EXCEPT !.messages = <<systemMsg, Message("user", <<"a">>)>>]))
     EXCEPT !.isLoading = TRUE]

\* the model struct after the reply T has been processed and saved
repliedModel(T) == GotoBottom(updateViewport(withSummary(withReply(sentModel, T))))

ExtractInit ==
  \E T \in Texts :
    /\ m = repliedModel(T)
    /\ store = SaveConversation(EmptyStore, current(repliedModel(T)), TRUE)
    /\ apiTasks = <<>>
    /\ editTasks = <<>>
    /\ execTasks = <<>>
    /\ clipTasks = 0
    /\ tmpFiles = 0
    /\ status = "run"
    /\ nextId = FirstId + 1
    /\ last = Ev("apiResponse",
                 <<"ok", Request(sentModel.messages, FirstId), T, TRUE>>,
                 <<current(repliedModel(T))>>)
    /\ events = 2

ExtractNext == KeyCtrlX

ExtractSpec == ExtractInit /\ [][ExtractNext]_vars

(***************************************************************************)
(* A third specification: the event loop started in the state the program  *)
(* is in after "a", Enter, a reply that proposes a command, Ctrl+X and     *)
(* Enter: the command is running and its output has not arrived yet.       *)
(***************************************************************************)
CommandReply == <<"run", OPEN, SP, "ls", SP, CLOSE>>

\* the model struct after Ctrl+X and Enter on the reply CommandReply
dispatchedModel ==
  [handleCommandExecution(repliedModel(CommandReply)) EXCEPT !.mode = "Normal"]

InFlightInit ==
  /\ m = dispatchedModel
  /\ store = SaveConversation(EmptyStore, current(repliedModel(CommandReply)), TRUE)
  /\ apiTasks = <<>>
  /\ editTasks = <<>>
  /\ execTasks = <<[cmd |-> dispatchedModel.commands[1], conv |-> FirstId]>>
  /\ clipTasks = 0
  /\ tmpFiles = 0
  /\ status = "run"
  /\ nextId = FirstId + 1
  /\ last = Ev("key", <<"enter", "run">>, <<>>)
  /\ events = 1

InFlightSpec == InFlightInit /\ [][Next]_vars

(***************************************************************************)
(* Properties.                                                             *)
(***************************************************************************)
\* the keys that run a command: Enter, or the number of a command
RunKeys == {<<"enter", "run">>, <<"1", "run">>, <<"2", "run">>}

\* the events that end with a save
SavingEvents == {"apiResponse", "editResult", "commandOutput"}

\* C1: a shell command is handed to execution only by Enter or by a numeric
\* key processed in CommandSelect mode, the string handed over is one of the
\* extracted commands (the one the key names), and an event that enters
\* CommandSelect hands nothing to execution.
C1_DispatchOnlyOnConfirm ==
  [][ /\ (Len(execTasks') > Len(execTasks) =>
            /\ m.mode = "CommandSelect"
            /\ last'.ev = "key" /\ last'.arg \in RunKeys
            /\ \E i \in 1..Len(m.commands) :
                 /\ execTasks' = Append(execTasks, [cmd |-> m.commands[i],
                                                    conv |-> m.conv.id])
                 /\ (last'.arg[1] = "enter" => i = m.selectedCommand + 1)
                 /\ (last'.arg[1] = "1" => i = 1)
                 /\ (last'.arg[1] = "2" => i = 2))
      /\ (m.mode # "CommandSelect" /\ m'.mode = "CommandSelect" =>
            execTasks' = execTasks) ]_vars

\* C1 witness: a numeric key has handed the second of two commands to
\* execution
C1_Witness ==
  /\ last.ev = "key" /\ last.arg = <<"2", "run">>
  /\ Len(execTasks) = 1 /\ execTasks[1].cmd = <<"pwd">>
  /\ Len(m.commands) = 2

\* C2: at most one completion request is outstanding.
C2_AtMostOneRequest == Len(apiTasks) <= 1

\* C3: while a completion request is outstanding, isLoading is true.
C3_LoadingWhileOutstanding == Len(apiTasks) > 0 => m.isLoading

\* C4: a successful edit result for an index i in [1, len(messages)-1] whose
\* message is a user message leaves i+1 messages, message i with the edited
\* content, messages 0..i-1 as they were, and the completion request it
\* issues carries that truncated list.
C4_EditTruncates ==
  [][ (/\ last'.ev = "editResult" /\ last'.arg[1] = "ok"
       /\ last'.arg[2] \in 1..(Len(m.messages) - 1)
       /\ m.messages[last'.arg[2] + 1].role = "user")
      => /\ Len(m'.messages) = last'.arg[2] + 1
         /\ m'.messages[last'.arg[2] + 1] = Message("user", last'.arg[3])
         /\ \A j \in 1..last'.arg[2] : m'.messages[j] = m.messages[j]
         /\ Len(apiTasks') = Len(apiTasks) + 1
         /\ apiTasks'[Len(apiTasks')].hist = m'.messages ]_vars

\* C4 witness: an edit of message 1 of three has been committed, and the
\* request in flight carries the two messages left
C4_Witness ==
  /\ last.ev = "editResult" /\ last.arg[1] = "ok"
  /\ last.arg[2] = 1 /\ last.arg[5] = 3
  /\ Len(m.messages) = 2 /\ m.messages[2].content = last.arg[3]
  /\ Len(apiTasks) = 1 /\ apiTasks[1].hist = m.messages

\* an execute input: "ctrl+x" in any mode, "x" in Editing mode
ExecuteInput ==
  /\ last'.ev = "key"
  /\ last'.arg[1] = "ctrl+x" \/ (last'.arg[1] = "x" /\ m.mode = "Editing")

\* the message an execute input targets does not exist or holds no command
NoCommandTarget ==
  IF m.mode = "Editing"
    THEN \/ ~CursorInRange(m)
         \/ m.messages[m.cursorIndex + 1].role # "assistant"
         \/ ExtractCommands(m.messages[m.cursorIndex + 1].content) = <<>>
    ELSE \/ \A i \in 1..Len(m.messages) : m.messages[i].role # "assistant"
         \/ ExtractCommands(targetMsg(m)) = <<>>

\* C5: in CommandSelect mode the list of extracted commands is not empty,
\* and an execute input whose target does not exist or holds no command
\* leaves the mode and all other state as they were.
C5_CommandSelectNonEmpty ==
  /\ [](m.mode = "CommandSelect" => Len(m.commands) > 0)
  /\ [][ ExecuteInput /\ NoCommandTarget =>
           /\ m' = m
           /\ UNCHANGED <<tmpFiles, store, apiTasks, editTasks, execTasks, clipTasks,
                          status, nextId>> ]_vars

\* C6: in Editing mode cursorIndex is within [1, len(messages)-1].
C6_CursorInEditing ==
  m.mode = "Editing" => m.cursorIndex \in 1..(Len(m.messages) - 1)

C8_CommandResultAppended ==
  [][ last'.ev = "commandOutput" =>
        /\ Len(m'.messages) = Len(m.messages) + 1
        /\ SubSeq(m'.messages, 1, Len(m.messages)) = m.messages
        /\ m'.messages[Len(m'.messages)] =
             Message("assistant", <<FENCE, NL>> \o last'.arg[3] \o <<FENCE>>)
        /\ last'.saved = <<current(m')>> ]_vars

\* C9 as amended: after a successful reply, a successful edit commit or a
\* command result that changes the conversation, SaveConversation has been
\* called with the whole current conversation; when the write succeeds the
\* stored snapshot of the current id equals the conversation in memory, and
\* when it fails the error is recorded.
C9_SavedWhenWritten ==
  [][ last'.ev \in SavingEvents /\ last'.arg[1] = "ok" =>
        /\ last'.saved = <<current(m')>>
        /\ (last'.arg[4] => store'[m'.conv.id] = <<current(m')>>)
        /\ (~last'.arg[4] => m'.err = "save") ]_vars

\* C9 witness: a reply has been saved, and the stored snapshot holds the
\* user message, the reply and the summary
C9_Witness ==
  /\ last.ev = "apiResponse" /\ last.arg[1] = "ok" /\ last.arg[4]
  /\ store[m.conv.id] = <<current(m)>>
  /\ Len(m.messages) = 3 /\ m.conv.summary # <<>>

\* C9 as stated: after each of these events the stored snapshot of the
\* current id equals the conversation in memory.
C9_AlwaysStored ==
  [][ last'.ev \in SavingEvents /\ last'.arg[1] = "ok" =>
        /\ last'.saved = <<current(m')>>
        /\ store'[m'.conv.id] = <<current(m')>> ]_vars

\* C10: for a viewport height of at least 0 the viewport offset is within
\* [0, max(0, totalLines - viewportHeight)].
C10_OffsetInRange ==
  m.vpHeight >= 0 =>
    m.YOffset >= 0 /\ m.YOffset <= Max(0, m.vpLines - m.vpHeight)

\* C11: in Help mode, one key of any kind other than quit leaves the engine
\* in Normal mode.
C11_HelpOneKey ==
  [][ m.mode = "Help" /\ last'.ev = "key" /\ status' = "run" =>
        m'.mode = "Normal" ]_vars

\* the modes whose tables do not hold the enter-edit-navigation key
NoEditKeyModes == {"History", "CommandSelect", "Help"}

\* C12: the mode becomes Editing only from Normal, by the enter-edit key,
\* which sets cursorIndex to len(messages)-1; the enter-edit key pressed in
\* History, CommandSelect or Help changes neither mode, cursor, selection
\* nor conversation.
C12_OnlyActiveTable ==
  [][ /\ (m.mode # "Editing" /\ m'.mode = "Editing" =>
            /\ m.mode = "Normal"
            /\ last'.ev = "key" /\ last'.arg = <<"ctrl+j">>
            /\ m'.cursorIndex = Len(m.messages) - 1)
      /\ (last'.ev = "key" /\ last'.arg = <<"ctrl+j">> /\ m.mode \in NoEditKeyModes =>
            /\ m'.mode = m.mode
            /\ m'.cursorIndex = m.cursorIndex
            /\ m'.selectedConv = m.selectedConv
            /\ m'.selectedCommand = m.selectedCommand
            /\ m'.conv = m.conv /\ m'.messages = m.messages) ]_vars

\* C13: a new-chat input processed in any mode leaves the engine in Normal
\* mode with a current conversation that has a new id (not the previous one,
\* and not one in the store) and exactly one message, the system message.
C13_NewChatResets ==
  [][ last'.ev = "key" /\ last'.arg[1] = "ctrl+n" =>
        /\ m'.mode = "Normal"
        /\ m'.messages = <<systemMsg>>
        /\ m'.conv.id # m.conv.id
        /\ store[m'.conv.id] = <<>>
        /\ m'.conv.summary = <<>> ]_vars

\* C13 witness: a new chat was started in CommandSelect mode
C13_Witness ==
  /\ last.ev = "key" /\ last.arg = <<"ctrl+n", "CommandSelect">>
  /\ m.mode = "Normal" /\ Len(m.messages) = 1

\* the navigation and select keys of History mode
HistoryKeys == {<<"up">>, <<"down">>, <<"pgup">>, <<"pgdn">>, <<"home">>,
                <<"end">>, <<"enter">>}

\* C14: in History mode with an empty conversation list every navigation
\* input (keys and mouse wheel) and the select input leaves the interaction
\* state as it was: selectedConv (still 0), mode, cursor and conversation.
C14_EmptyHistoryNoOp ==
  [][ (/\ m.mode = "History" /\ Len(m.conversations) = 0 /\ m.selectedConv = 0
       /\ \/ last'.ev = "mouse"
          \/ last'.ev = "key" /\ last'.arg \in HistoryKeys)
      => /\ m'.selectedConv = 0
         /\ m'.mode = "History"
         /\ m'.cursorIndex = m.cursorIndex
         /\ m'.conversations = m.conversations
         /\ m'.conv = m.conv /\ m'.messages = m.messages
         /\ status' = status ]_vars

\* C15: in History mode with a non-empty list, select makes the current
\* conversation the one with exactly selectedConv more recent conversations
\* in the list, sets the mode to Normal and puts the viewport at the bottom;
\* cancel sets the mode to Normal and leaves the conversation unchanged.
C15_HistorySelect ==
  [][ /\ (/\ m.mode = "History" /\ Len(m.conversations) > 0
          /\ last'.ev = "key" /\ last'.arg[1] = "enter")
         => /\ status' = "run"
            /\ m'.mode = "Normal"
            /\ \E k \in 1..Len(m.conversations) :
                 /\ Cardinality({j \in 1..Len(m.conversations) :
                       m.conversations[j].id > m.conversations[k].id})
                      = m.selectedConv
                 /\ m'.conv = [id |-> m.conversations[k].id,
                               summary |-> m.conversations[k].summary]
                 /\ m'.messages = m.conversations[k].messages
            /\ m'.YOffset = Max(0, m'.vpLines - m'.vpHeight)
      /\ (m.mode = "History" /\ last'.ev = "key" /\ last'.arg = <<"esc">>)
         => /\ m'.mode = "Normal"
            /\ m'.conv = m.conv /\ m'.messages = m.messages ]_vars

\* a one-pass scanner for the command blocks of a text: outside a block
\* (start = 0) an opening tag starts one; inside, the first closing tag ends
\* it and yields the tokens between the two tags
RECURSIVE ScanBlocks(_, _, _)
ScanBlocks(T, i, start) ==
  IF i > Len(T) THEN <<>>
  ELSE IF start = 0
    THEN ScanBlocks(T, i + 1, IF T[i] = OPEN THEN i ELSE 0)
  ELSE IF T[i] = CLOSE
    THEN <<SubSeq(T, start + 1, i - 1)>> \o ScanBlocks(T, i + 1, 0)
  ELSE ScanBlocks(T, i + 1, start)

RECURSIVE StripLeft(_)
StripLeft(s) == IF s # <<>> /\ Head(s) \in {SP, NL} THEN StripLeft(Tail(s)) ELSE s

RECURSIVE StripRight(_)
StripRight(s) ==
  IF s # <<>> /\ s[Len(s)] \in {SP, NL}
    THEN StripRight(SubSeq(s, 1, Len(s) - 1)) ELSE s

\* the reply text the operator asked the commands of
ReplyText == m.messages[Len(m.messages)].content

\* C16: for every text over opening tag, closing tag, white space and other
\* tokens, extraction returns the inner text of each non-overlapping
\* opening/closing pair in left-to-right order, one command per pair, each
\* without leading or trailing white space; a text with no complete pair
\* yields no command (the engine stays in Normal mode).
C16_ExtractInOrder ==
  last.ev = "key" /\ last.arg = <<"ctrl+x">> =>
    IF ScanBlocks(ReplyText, 1, 0) = <<>>
      THEN m.mode = "Normal" /\ m.commands = <<>>
      ELSE /\ m.mode = "CommandSelect"
           /\ Len(m.commands) = Len(ScanBlocks(ReplyText, 1, 0))
           /\ \A k \in 1..Len(m.commands) :
                /\ m.commands[k] = StripLeft(StripRight(ScanBlocks(ReplyText, 1, 0)[k]))
                /\ m.commands[k] # <<>> =>
                     /\ Head(m.commands[k]) \notin {SP, NL}
                     /\ m.commands[k][Len(m.commands[k])] \notin {SP, NL}

\* C16 witness: two commands extracted in document order, the first with
\* the white space before it removed, the second empty
C16_Witness ==
  /\ last.ev = "key" /\ last.arg = <<"ctrl+x">>
  /\ ReplyText = <<OPEN, SP, "pwd", CLOSE, OPEN, CLOSE>>
  /\ m.commands = << <<"pwd">>, <<>> >>

\* the target of an execute input as the claim C17 has it: its position in
\* the message list, 0 when there is none
ClaimedTarget ==
  IF /\ m.mode = "Editing" /\ CursorInRange(m)
     /\ m.messages[m.cursorIndex + 1].role = "assistant"
    THEN m.cursorIndex + 1
    ELSE LET asst == {i \in 1..Len(m.messages) : m.messages[i].role = "assistant"}
         IN IF asst = {} THEN 0 ELSE CHOOSE i \in asst : \A j \in asst : i >= j

\* C17: an execute input targets, in Editing mode, the message at
\* cursorIndex when it is an assistant message, and otherwise (global
\* execute, or Editing with the cursor on another message) the last
\* assistant message: its commands are the ones offered; without an
\* assistant message the input changes no state.
C17_ExecuteTarget ==
  [][ ExecuteInput =>
        IF ClaimedTarget = 0
          THEN m' = m /\ status' = status
        ELSE IF ExtractCommands(m.messages[ClaimedTarget].content) = <<>>
          THEN m' = m /\ status' = status
        ELSE /\ m'.mode = "CommandSelect"
             /\ m'.commands = ExtractCommands(m.messages[ClaimedTarget].content)
             /\ m'.selectedCommand = 0 ]_vars

\* C18: once an editor invocation that created a temporary file has
\* finished, on any path, the file no longer exists: the temporary files
\* that exist are those of invocations whose result is still to come.
C18_TempFilesRemoved ==
  tmpFiles = Cardinality({k \in 1..Len(editTasks) : editTasks[k].stage # "create"})

\* C19: the current conversation's message list is never empty, its first
\* message is a system message, and no later message is one.
C19_SystemFirst ==
  /\ Len(m.messages) > 0
  /\ m.messages[1].role = "system"
  /\ \A i \in 2..Len(m.messages) : m.messages[i].role # "system"

\* C19 witness: an edit has been committed, and the list left starts with
\* the system message followed by the edited user message
C19_Witness ==
  /\ last.ev = "editResult" /\ last.arg[1] = "ok"
  /\ m.messages[1] = systemMsg
  /\ m.messages[Len(m.messages)] = Message("user", last.arg[3])

\* the events that make another conversation the current one
SwitchEvent ==
  /\ last'.ev = "key"
  /\ last'.arg[1] \in {"ctrl+n", "ctrl+l"} \/ last'.arg = <<"enter", "select">>

\* C20: every event other than new chat and loading or selecting a
\* conversation leaves the message list as it was, or appends exactly one
\* message to it, or (edit commit at i) keeps the first i messages and
\* gives message i a new content.
C20_AppendOrder ==
  [][ ~SwitchEvent =>
        \/ m'.messages = m.messages
        \/ /\ Len(m'.messages) = Len(m.messages) + 1
           /\ SubSeq(m'.messages, 1, Len(m.messages)) = m.messages
        \/ /\ last'.ev = "editResult" /\ last'.arg[1] = "ok"
           /\ last'.arg[2] < Len(m.messages)
           /\ Len(m'.messages) = last'.arg[2] + 1
           /\ SubSeq(m'.messages, 1, last'.arg[2]) = SubSeq(m.messages, 1, last'.arg[2])
           /\ m'.messages[last'.arg[2] + 1].role = m.messages[last'.arg[2] + 1].role
    ]_vars

\* C20 witness: a command's output has been appended after the three
\* messages the conversation had
C20_Witness ==
  /\ last.ev = "commandOutput" /\ last.arg[1] = "ok"
  /\ Len(m.messages) = 4
  /\ m.messages[4].content[1] = FENCE
  /\ m.messages[3].role = "assistant" /\ m.messages[2].role = "user"

\* C21: a clipboard process that fails delivers a completion event that
\* carries the error, so the failure is recorded and not silently dropped.
C21_ClipboardErrorDelivered ==
  [][ last'.ev = "clipDone" /\ last'.arg = <<"failed">> =>
        m'.err # m.err /\ m'.err # "" ]_vars

\* C22 (amended): ListConversations is called only by the browse-history
\* input processed in Normal mode and by the Ctrl+L input, which loads the
\* next stored conversation in every mode; no other event calls it.
C22_ListCallers ==
  [][ last'.list =>
        /\ last'.ev = "key"
        /\ \/ last'.arg[1] = "ctrl+l"
           \/ last'.arg[1] = "ctrl+r" /\ m.mode = "Normal" ]_vars

\* Ctrl+L has read the list while the engine is in Editing mode
C22_Witness ==
  /\ last.list /\ last.ev = "key" /\ last.arg = <<"ctrl+l">>
  /\ m.mode = "Editing"
  /\ store[m.conv.id] # <<>>

\* C22: ListConversations is called only by the event that enters History
\* mode, the browse-history input processed in Normal mode.
C22_ListOnlyEnteringHistory ==
  [][ last'.list =>
        /\ last'.ev = "key" /\ last'.arg[1] = "ctrl+r"
        /\ m.mode = "Normal" /\ m'.mode = "History" ]_vars

\* C23: when browse history is processed in Normal mode and the list call
\* fails, the error is recorded, the mode is still Normal, and the
\* conversation list and selectedConversationIndex keep their values.
C23_ListFailureKeepsState ==
  [][ last'.ev = "key" /\ last'.arg = <<"ctrl+r", "failed">> =>
        /\ m'.err = "list"
        /\ m'.mode = "Normal"
        /\ m'.conversations = m.conversations
        /\ m'.selectedConv = m.selectedConv ]_vars

\* the stored conversation with the most recent creation time
MostRecentStored == sortByRecency(ListConversations(store))[1]

\* C24: every Ctrl+L processed while at least one conversation is stored
\* makes the current conversation the most recently created stored one.
C24_LoadsMostRecent ==
  [][ /\ last'.ev = "key" /\ last'.arg = <<"ctrl+l">>
      /\ ListConversations(store) # <<>>
      => /\ m'.conv.id = MostRecentStored.id
         /\ m'.messages = MostRecentStored.messages ]_vars

\* the events that regenerate the displayed content after an append or an
\* edit commit
Regenerates ==
  /\ status' = "run"
  /\ \/ last'.ev = "key" /\ last'.arg = <<"enter", "send">>
     \/ last'.ev \in SavingEvents /\ last'.arg[1] = "ok"

\* C25: when the displayed content is regenerated because a message was
\* appended or an edit was committed, the viewport offset afterwards is
\* min(previous offset, new maximum offset).
C25_OffsetPreserved ==
  [][ Regenerates => m'.YOffset = Min(m.YOffset, maxYOffset(m')) ]_vars

\* the offset that shows line L a quarter of the viewport below the top
QuarterAbove(mm, L) ==
  Max(0, Min(L - (mm.vpHeight \div 4), maxYOffset(mm)))

\* C26: after a j/k move in Editing mode to cursorIndex i the offset is
\* clamp(L - floor(viewportHeight / 4), 0, maxOffset), L being the first
\* rendered line of message i itself, and maxOffset when i is the last
\* message.
C26_CursorMessageVisible ==
  [][ /\ m.mode = "Editing" /\ last'.ev = "key"
      /\ last'.arg \in {<<"j">>, <<"k">>}
      /\ m'.cursorIndex # m.cursorIndex
      => m'.YOffset =
           IF m'.cursorIndex = Len(m'.messages) - 1 THEN maxYOffset(m')
           ELSE QuarterAbove(m', editingFirstLine(m', m'.cursorIndex)) ]_vars

\* C27: after every event that takes the engine from another mode to Normal
\* mode, the viewport's content buffer is the Normal-mode transcript of the
\* current message list.
C27_NormalBuffer ==
  [][ m.mode # "Normal" /\ m'.mode = "Normal" /\ status' = "run" =>
        m'.vpView = "Normal" /\ m'.vpLines = normalViewLines(m') ]_vars

\* the content of the first user message of a saved snapshot, empty
\* when it has none
FirstUserContent(snap) ==
  LET us == {i \in 1..Len(snap.messages) : snap.messages[i].role = "user"}
  IN IF us = {} THEN <<>>
     ELSE snap.messages[CHOOSE i \in us : \A j \in us : i <= j].content

HasUser(snap) == \E i \in 1..Len(snap.messages) : snap.messages[i].role = "user"

\* C28: whenever the conversation is saved, its summary is the content of
\* its first user message, cut to 47 characters and "..." when longer than
\* 50; after an edit commit the summary reflects the edited text.
C28_SummaryOfFirstUser ==
  [][ last'.ev \in SavingEvents /\ last'.saved # <<>> /\ HasUser(last'.saved[1]) =>
        last'.saved[1].summary = cutSummary(FirstUserContent(last'.saved[1])) ]_vars

\* C29: the result of a request or command issued in one conversation is
\* not appended to, nor saved under, another conversation that is current
\* when the completion event arrives.
C29_ResultToIssuingConversation ==
  [][ /\ last'.ev \in {"apiResponse", "commandOutput"}
      /\ last'.arg[1] = "ok"
      /\ last'.arg[2].conv # m.conv.id
      => /\ m'.messages = m.messages
         /\ store'[m.conv.id] = store[m.conv.id] ]_vars

\* C30: in History mode with a non-empty conversation list,
\* selectedConversationIndex is within [0, len(list) - 1], for every
\* terminal height, those below 7 included.
C30_SelectionInList ==
  m.mode = "History" /\ Len(m.conversations) > 0 =>
    m.selectedConv >= 0 /\ m.selectedConv <= Len(m.conversations) - 1

\* C31: whenever an edit result is processed, its index is within
\* [1, len(messages) - 1] of the current message list and names a user
\* message of the conversation in which the edit was started.
C31_EditResultInRange ==
  [][ last'.ev = "editResult" =>
        \E k \in 1..Len(editTasks) :
          /\ editTasks' = Without(editTasks, k)
          /\ editTasks[k].index >= 1
          /\ editTasks[k].index <= Len(m.messages) - 1
          /\ editTasks[k].conv = m.conv.id
          /\ m.messages[editTasks[k].index + 1].role = "user" ]_vars

\* C32: the reply appended next after an edit commit is the reply to the
\* request that commit issued, computed from the truncated message list;
\* stated for the reply that is processed right after the commit.
C32_ReplyAnswersCommit ==
  [][ /\ last.ev = "editResult" /\ last.arg[1] = "ok"
      /\ last'.ev = "apiResponse" /\ last'.arg[1] = "ok"
      => /\ last'.arg[2].hist = m.messages
         /\ last'.arg[2].conv = m.conv.id ]_vars

\* the completion events of the asynchronous tasks
CompletionEvents == {"apiResponse", "commandOutput", "editResult", "clipDone"}

\* C33: a reply event and a command-output event, in whichever mode they
\* arrive, leave mode, cursorIndex, selectedConv, selectedCommand and the
\* extracted commands unchanged; of the completion events only a successful
\* edit result changes the mode, and it changes it to Normal.
C33_CompletionFrame ==
  [][ /\ (last'.ev \in {"apiResponse", "commandOutput"} =>
            /\ m'.mode = m.mode
            /\ m'.cursorIndex = m.cursorIndex
            /\ m'.selectedConv = m.selectedConv
            /\ m'.selectedCommand = m.selectedCommand
            /\ m'.commands = m.commands)
      /\ (last'.ev \in CompletionEvents /\ m'.mode # m.mode =>
            /\ last'.ev = "editResult" /\ last'.arg[1] = "ok"
            /\ m'.mode = "Normal") ]_vars

\* a command output has been appended while the engine is in History mode
\* with a conversation selected
C33_Witness ==
  /\ last.ev = "commandOutput" /\ last.arg[1] = "ok"
  /\ m.mode = "History" /\ m.selectedConv = 0 /\ Len(m.conversations) > 0
  /\ m.messages[Len(m.messages)] =
       Message("assistant", <<FENCE, NL>> \o last.arg[3] \o <<FENCE>>)

=============================================================================
